---------------------------- MODULE Spec2Model ----------------------------
(***************************************************************************)
(* A model of the travel-itinerary service: the Flask handler of           *)
(* src/app.py and the cached generator of src/utils/aibrain_client.py.     *)
(*                                                                         *)
(* Text is a sequence of one-character strings, so that len, strip,        *)
(* startswith and the two regular expressions of the formatter are         *)
(* computed character by character as the code computes them.              *)
(***************************************************************************)
EXTENDS Integers, Sequences, FiniteSets, TLC

(***************************************************************************)
(* Text helpers                                                            *)
(***************************************************************************)

\* c repeated n times (the text "aaaa...").
Rep(c, n) == [i \in 1..n |-> c]

\* p occurs in s at index i.
StartsWithAt(s, i, p) ==
    /\ i >= 1
    /\ i + Len(p) - 1 <= Len(s)
    /\ SubSeq(s, i, i + Len(p) - 1) = p

\* Python's \d restricted to ASCII.
IsDigit(c) == c \in {"0", "1", "2", "3", "4", "5", "6", "7", "8", "9"}

\* The characters str.strip() removes.
IsSpace(c) == c \in {" ", "\n", "\t", "\r"}

\* str.strip(): leading and trailing whitespace removed.
RECURSIVE strip(_)
strip(s) ==
    IF s = <<>> THEN <<>>
    ELSE IF IsSpace(Head(s)) THEN strip(Tail(s))
    ELSE IF IsSpace(s[Len(s)]) THEN strip(SubSeq(s, 1, Len(s) - 1))
    ELSE s

\* sep.join(parts)
RECURSIVE join(_, _)
join(sep, parts) ==
    IF parts = <<>> THEN <<>>
    ELSE IF Len(parts) = 1 THEN parts[1]
    ELSE parts[1] \o sep \o join(sep, Tail(parts))

(***************************************************************************)
(* format_itinerary_response (aibrain_client.py, lines 87-116)             *)
(***************************************************************************)

sOverview == <<"O", "v", "e", "r", "v", "i", "e", "w", ":">>
sEssential == <<"E", "s", "s", "e", "n", "t", "i", "a", "l", " ", "T", "i", "p", "s", ":">>
sBudget == <<"B", "u", "d", "g", "e", "t", " ", "C", "o", "n", "s", "i", "d", "e", "r", "a", "t", "i", "o", "n", "s", ":">>
sSafety == <<"S", "a", "f", "e", "t", "y", " ", "T", "i", "p", "s", ":">>
sCustoms == <<"L", "o", "c", "a", "l", " ", "C", "u", "s", "t", "o", "m", "s", ":">>
sDay == <<"D", "a", "y", " ">>

\* The literal alternatives of the split pattern (line 98).
FixedHeaders == {sOverview, sEssential, sBudget, sSafety, sCustoms}

\* The prefixes of the startswith test (line 106): 'Day ' needs no number.
HeadingPrefixes == {sDay} \cup FixedHeaders

\* The index after the longest run of digits that starts at i.
RECURSIVE DigitsEnd(_, _)
DigitsEnd(s, i) ==
    IF i <= Len(s) /\ IsDigit(s[i]) THEN DigitsEnd(s, i + 1) ELSE i

\* "Day \d+:" matches at index i.
DayHeaderAt(s, i) ==
    /\ StartsWithAt(s, i, sDay)
    /\ LET j == DigitsEnd(s, i + Len(sDay))
       IN  j > i + Len(sDay) /\ j <= Len(s) /\ s[j] = ":"

\* The lookahead of the split pattern matches at index i.
HeaderAt(s, i) ==
    \/ DayHeaderAt(s, i)
    \/ \E h \in FixedHeaders : StartsWithAt(s, i, h)

\* The split pattern \n(?=header) matches at index p: the newline is consumed.
SplitAt(s, p) == p >= 1 /\ p <= Len(s) /\ s[p] = "\n" /\ HeaderAt(s, p + 1)

\* re.split of the text from index `from` on (line 98).
RECURSIVE re_split(_, _)
re_split(s, from) ==
    LET ps == {p \in from..Len(s) : SplitAt(s, p)}
    IN  IF ps = {} THEN << SubSeq(s, from, Len(s)) >>
        ELSE LET p == CHOOSE x \in ps : \A y \in ps : x <= y
             IN  << SubSeq(s, from, p - 1) >> \o re_split(s, p + 1)

\* One section of the loop body (lines 103-108), after strip.
FormatSection(section) ==
    IF \E h \in HeadingPrefixes : StartsWithAt(section, 1, h)
    THEN <<"#", "#", " ">> \o section
    ELSE section

\* The loop of lines 102-108: strip, drop the empty ones, mark the headings.
RECURSIVE FormatSections(_)
FormatSections(sections) ==
    IF sections = <<>> THEN <<>>
    ELSE LET section == strip(Head(sections))
         IN  IF section # <<>>
             THEN << FormatSection(section) >> \o FormatSections(Tail(sections))
             ELSE FormatSections(Tail(sections))

\* The pattern of line 114, (\n## Day \d+:), matches at index i.
RuleMatchAt(s, i) ==
    /\ StartsWithAt(s, i, <<"\n", "#", "#", " ">>)
    /\ DayHeaderAt(s, i + 4)

\* (mutant) a pattern that never matches: the text as it is.
AddRulesNever(s, i) == SubSeq(s, i, Len(s))

\* re.sub of line 114 from index i on: "\n---" goes before every match.  A match
\* holds one newline, its first character, so the matches never overlap.
RECURSIVE AddRules(_, _)
AddRules(s, i) ==
    IF i > Len(s) THEN <<>>
    ELSE IF RuleMatchAt(s, i)
         THEN <<"\n", "-", "-", "-">> \o << s[i] >> \o AddRules(s, i + 1)
         ELSE << s[i] >> \o AddRules(s, i + 1)

format_itinerary_response(raw_response) ==
    LET sections == re_split(raw_response, 1)
        formatted_sections == FormatSections(sections)
        formatted_text == join(<<"\n", "\n">>, formatted_sections)
    IN  AddRules(formatted_text, 1)

(***************************************************************************)
(* Python values.  Each type has a field of its own name, so that values   *)
(* of different types compare unequal.                                     *)
(***************************************************************************)

PyNone == [ty |-> "NoneType"]
PyStr(s) == [ty |-> "str", s |-> s]
PyInt(n) == [ty |-> "int", i |-> n]
\* A float, in tenths: 3.0 is PyFloat(30), 3.7 is PyFloat(37).
PyFloat(t) == [ty |-> "float", tenths |-> t]
\* A list of n elements: unhashable, and len() is n.
PyList(n) == [ty |-> "list", n |-> n]
\* A key the JSON body does not hold (dict.get then gives its default).
Missing == [ty |-> "missing"]

(***************************************************************************)
(* validate_inputs (aibrain_client.py, lines 60-85): the message of the    *)
(* TravelAssistantError it raises, or "ok".                                *)
(***************************************************************************)
validate_inputs(destination, days, preferences) ==
    IF destination.ty # "str" \/ strip(destination.s) = <<>>
    THEN "Destination must be a non-empty string"
    ELSE IF days.ty # "int" \/ days.i < 1 \/ days.i > 30
    THEN "Days must be an integer between 1 and 30"
    ELSE IF preferences.ty # "str"
    THEN "Preferences must be a string"
    ELSE IF Len(destination.s) > 100
    THEN "Destination name is too long (max 100 characters)"
    ELSE IF Len(preferences.s) > 500
    THEN "Preferences text is too long (max 500 characters)"
    ELSE "ok"

(***************************************************************************)
(* The lru_cache wrapper of generate_itinerary (line 118).  The cache is   *)
(* the wrapper's linked list: least recently used first.                   *)
(***************************************************************************)

\* @lru_cache(maxsize=100)
maxsize == 100

\* hash() succeeds: a list argument raises TypeError in the wrapper.
Hashable(v) == v.ty # "list"

\* Equal numbers hash and compare equal (typed=False): 3.0 is the key 3.
KeyPart(v) ==
    IF v.ty = "float" /\ v.tenths % 10 = 0 THEN PyInt(v.tenths \div 10) ELSE v

\* The key of a call with four positional arguments.
make_key(a) ==
    << KeyPart(a.destination), KeyPart(a.days), KeyPart(a.preferences), KeyPart(a.language) >>

Keys(c) == {c[i].key : i \in 1..Len(c)}

\* The wrapper's lookup: the index of the key's link, 0 when it has none.
CacheIndex(c, k) ==
    IF k \in Keys(c) THEN CHOOSE i \in 1..Len(c) : c[i].key = k ELSE 0

\* (mutant) a hit that leaves the link where it is: eviction in insertion order.
MoveToEndStays(c, i) == c

\* A hit moves the link to the most recently used end.
MoveToEnd(c, i) ==
    SubSeq(c, 1, i - 1) \o SubSeq(c, i + 1, Len(c)) \o << c[i] >>

\* (mutant) the result is returned and never stored.
InsertResultDropped(c, k, r) == c

\* After the wrapped function returned: a key some other call stored in the
\* meantime is left alone; a full cache drops its oldest link.
InsertResult(c, k, r) ==
    IF k \in Keys(c) THEN c
    ELSE IF Len(c) < maxsize THEN Append(c, [key |-> k, result |-> r])
    ELSE Append(Tail(c), [key |-> k, result |-> r])

\* (mutant) a failure is cached like a result.
CacheAfterRaiseStored(c, k) == Append(c, [key |-> k, result |-> PyNone])

\* The wrapped function raised: the wrapper stores nothing.
CacheAfterRaise(c, k) == c

\* generate_itinerary.cache_clear() (line 262)
cache_clear(c) == <<>>

(***************************************************************************)
(* The body of generate_itinerary (lines 140-258)                          *)
(***************************************************************************)

GEMINI_MODEL == "gemini-1.5-pro"

\* len() of the system prompt without the language, and of the user prompt
\* without days, destination and preferences.
SystemPromptFixedLen == 1537
UserPromptFixedLen == 233

\* len(str(days)) for the days validate_inputs lets through.
DaysTextLen(days) == IF days.i < 10 THEN 1 ELSE 2

SystemPromptLen(a) == SystemPromptFixedLen + Len(a.language.s)

UserPromptLen(a) ==
    UserPromptFixedLen + DaysTextLen(a.days) + Len(a.destination.s) + Len(a.preferences.s)

\* The dictionary of lines 216-228: the answer to the full prompt, formatted.
FullResult(a, text, at) ==
    [itinerary |-> format_itinerary_response(text),
     metadata |-> [destination |-> a.destination, days |-> a.days,
                   preferences |-> a.preferences, language |-> a.language,
                   model |-> GEMINI_MODEL,
                   prompt_tokens |-> (SystemPromptLen(a) + UserPromptLen(a)) \div 4,
                   generated_at |-> at, version |-> "1.1.0"]]

\* (mutant) the reduced-prompt result without its flag.
FallbackResultUnflagged(a, text, at) ==
    [itinerary |-> text, metadata |-> FullResult(a, text, at).metadata]

\* The dictionary of lines 241-254: the answer to the user prompt alone, as it came.
FallbackResult(a, text, at) ==
    [itinerary |-> text,
     metadata |-> [destination |-> a.destination, days |-> a.days,
                   preferences |-> a.preferences, language |-> a.language,
                   model |-> GEMINI_MODEL,
                   prompt_tokens |-> UserPromptLen(a) \div 4,
                   generated_at |-> at, version |-> "1.1.0",
                   fallback |-> TRUE]]

\* What a call ends with.
NoOutcome == [kind |-> "none"]
Returned(r) == [kind |-> "return", result |-> r]
Raised(exc, msg) == [kind |-> "raise", exc |-> exc, msg |-> msg]

\* Line 258: every exception of the body leaves as a TravelAssistantError.
BodyRaises(msg) == Raised("TravelAssistantError", <<"Failed to generate itinerary: ", msg>>)

(***************************************************************************)
(* The state                                                               *)
(***************************************************************************)

VARIABLES
    cache,      \* the wrapper's entries [key, result], least recently used first
    cache0,     \* the cache of the initial state (never changes)
    pc,         \* per handler thread: "idle", or the generate_content call in flight
    args,       \* per thread: the arguments of its current or last generate_itinerary call
    ret,        \* per thread: what its last generate_itinerary or clear_cache call ended with
    http,       \* per thread: the JSON body of the HTTP request it handles, or NoRequest
    resp,       \* per thread: the HTTP response it sent last, or NoResponse
    log,        \* history: the events of the run, in order
    now,        \* the clock datetime.utcnow() reads
    nops,       \* calls and requests begun so far
    raw,        \* the formatter's input (formatter specification)
    formatted   \* the formatter's output

vars == <<cache, cache0, pc, args, ret, http, resp, log, now, nops, raw, formatted>>

\* The handler threads of the web server.  They run the same code, so a new
\* request or call goes to the first idle one.
Threads == {1, 2}
Idle == {t \in Threads : pc[t] = "idle"}
Dispatch == CHOOSE t \in Idle : \A u \in Idle : t <= u

NoArgs == [none |-> TRUE]
NoRequest == [none |-> TRUE]
NoResponse == [status |-> 0, message |-> <<>>]
NotFormatted == [done |-> FALSE]

sEn == <<"e", "n">>
sParis == <<"P", "a", "r", "i", "s">>
sRome == <<"R", "o", "m", "e">>
sLima == <<"L", "i", "m", "a">>
sFood == <<"f", "o", "o", "d">>

\* The text the model answers with: the sectioned "Overview: foo\nDay 1: bar".
\* tPlain is the text of the entries the cache is filled with.
tExample == <<"O", "v", "e", "r", "v", "i", "e", "w", ":", " ", "f", "o", "o", "\n", "D", "a", "y", " ", "1", ":", " ", "b", "a", "r">>
tPlain == <<"x">>
RawTexts == {tExample}

Call(dest, days, prefs, lang) ==
    [destination |-> dest, days |-> days, preferences |-> prefs, language |-> lang]

\* The entries a run of n earlier calls left: Lima, 1 to 30 days, in four
\* languages, the oldest first.
FillLanguages == << sEn, <<"e", "s">>, <<"f", "r">>, <<"d", "e">> >>
FillArgs(i) ==
    Call(PyStr(sLima), PyInt(((i - 1) % 30) + 1), PyStr(sFood),
         PyStr(FillLanguages[((i - 1) \div 30) + 1]))
Prefill(n) ==
    [i \in 1..n |->
        [key |-> make_key(FillArgs(i)),
         result |-> FullResult(FillArgs(i), tPlain, i - n)]]

InitWith(c, r) ==
    /\ cache = c
    /\ cache0 = c
    /\ pc = [t \in Threads |-> "idle"]
    /\ args = [t \in Threads |-> NoArgs]
    /\ ret = [t \in Threads |-> NoOutcome]
    /\ http = [t \in Threads |-> NoRequest]
    /\ resp = [t \in Threads |-> NoResponse]
    /\ log = <<>>
    /\ now = 1
    /\ nops = 0
    /\ raw = r
    /\ formatted = NotFormatted

(***************************************************************************)
(* app.py: what the handler answers                                        *)
(***************************************************************************)

\* format_error_response / format_success_response (lines 29-43)
Response(status, message) == [status |-> status, message |-> message]

\* The except clauses of itinerary() (lines 130-137).
HttpResponse(out) ==
    IF out.kind = "return" THEN Response(200, <<"success">>)
    ELSE IF out.exc = "TravelAssistantError" THEN Response(400, out.msg)
    ELSE Response(500, <<"An unexpected error occurred">>)

(***************************************************************************)
(* generate_itinerary: the wrapper's lookup, then the body up to its first *)
(* generate_content call.  h is the HTTP request it is called for, or      *)
(* NoRequest for a direct call.                                            *)
(***************************************************************************)

\* A call ends in the step that began it or in a later one: the outcome goes to
\* the caller and, for a request, into the response.
Finish(t, h, out, events) ==
    /\ ret' = [ret EXCEPT ![t] = out]
    /\ log' = log \o events \o << [e |-> "done", by |-> t, out |-> out] >>
                 \o (IF h = NoRequest THEN <<>>
                     ELSE << [e |-> "response", by |-> t, resp |-> HttpResponse(out)] >>)
    /\ resp' = IF h = NoRequest THEN resp ELSE [resp EXCEPT ![t] = HttpResponse(out)]
    /\ pc' = [pc EXCEPT ![t] = "idle"]

Invoke(t, a, h) ==
    LET callEv == [e |-> "call", by |-> t, args |-> a]
        pre == IF h = NoRequest THEN <<>> ELSE << [e |-> "request", by |-> t, data |-> h] >>
    IN  /\ args' = [args EXCEPT ![t] = a]
        /\ http' = [http EXCEPT ![t] = h]
        /\ now' = now
        /\ IF \E f \in DOMAIN a : ~Hashable(a[f])
           THEN \* hash(key) raises before the cache is looked at
                /\ cache' = cache
                /\ Finish(t, h, Raised("TypeError", <<"unhashable type: 'list'">>),
                          pre \o <<callEv>>)
           ELSE LET k == make_key(a)
                    i == CacheIndex(cache, k)
                    v == validate_inputs(a.destination, a.days, a.preferences)
                IN  IF i > 0
                    THEN \* a hit: the body does not run
                         /\ cache' = MoveToEnd(cache, i)
                         /\ Finish(t, h, Returned(cache[i].result),
                                   pre \o <<callEv, [e |-> "hit", by |-> t, key |-> k]>>)
                    ELSE IF v # "ok"
                    THEN \* line 141 raises, line 258 wraps
                         /\ cache' = CacheAfterRaise(cache, k)
                         /\ Finish(t, h, BodyRaises(v), pre \o <<callEv>>)
                    ELSE \* lines 194-208: the full prompt goes out
                         /\ cache' = cache
                         /\ pc' = [pc EXCEPT ![t] = "full"]
                         /\ ret' = [ret EXCEPT ![t] = NoOutcome]
                         /\ resp' = IF h = NoRequest THEN resp
                                    ELSE [resp EXCEPT ![t] = NoResponse]
                         /\ log' = log \o pre
                                        \o <<callEv, [e |-> "model", by |-> t, prompt |-> "full"]>>

\* A direct call of generate_itinerary(destination, days, preferences, language).
generate_itinerary(t, a) ==
    /\ pc[t] = "idle"
    /\ nops' = nops + 1
    /\ Invoke(t, a, NoRequest)
    /\ UNCHANGED <<cache0, raw, formatted>>

\* The wrapper stores the result the body returned (after the call, line 118).
Store(t, r, respEv) ==
    LET k == make_key(args[t])
        c2 == InsertResult(cache, k, r)
        stored == IF k \in Keys(cache) THEN <<>>
                  ELSE << [e |-> "insert", by |-> t, key |-> k] >>
        evicted == [i \in 1..Cardinality(Keys(cache) \ Keys(c2)) |->
                       [e |-> "evict", by |-> t,
                        key |-> CHOOSE x \in Keys(cache) \ Keys(c2) : TRUE]]
    IN  /\ cache' = c2
        /\ Finish(t, http[t], Returned(r), <<respEv>> \o evicted \o stored)
        /\ now' = now + 1
        /\ UNCHANGED <<cache0, args, http, nops, raw, formatted>>

RespEv(t, prompt, ok) == [e |-> "resp", by |-> t, prompt |-> prompt, ok |-> ok, at |-> now]

\* generate_content answers the full prompt (lines 197-228).
FullPromptAnswers(t, text) ==
    /\ pc[t] = "full"
    /\ Store(t, FullResult(args[t], text, now), RespEv(t, "full", TRUE))

\* It raises, or response.text does: the except clause of line 229 sends the
\* user prompt alone (lines 232-240).
FullPromptFails(t) ==
    /\ pc[t] = "full"
    /\ pc' = [pc EXCEPT ![t] = "fallback"]
    /\ log' = log \o << RespEv(t, "full", FALSE),
                        [e |-> "model", by |-> t, prompt |-> "reduced"] >>
    /\ UNCHANGED <<cache, cache0, args, ret, http, resp, now, nops, raw, formatted>>

\* generate_content answers the reduced prompt (lines 241-254).
ReducedPromptAnswers(t, text) ==
    /\ pc[t] = "fallback"
    /\ Store(t, FallbackResult(args[t], text, now), RespEv(t, "reduced", TRUE))

\* (mutant) the retry is retried.
ReducedPromptFailsRetries(t) ==
    /\ pc[t] = "fallback"
    /\ Len(log) < 40
    /\ log' = log \o << RespEv(t, "reduced", FALSE),
                        [e |-> "model", by |-> t, prompt |-> "reduced"] >>
    /\ UNCHANGED <<cache, cache0, pc, args, ret, http, resp, now, nops, raw, formatted>>

\* The retry raises too: line 256 catches it and line 258 raises.
ReducedPromptFails(t) ==
    /\ pc[t] = "fallback"
    /\ cache' = CacheAfterRaise(cache, make_key(args[t]))
    /\ Finish(t, http[t], BodyRaises("model error"), << RespEv(t, "reduced", FALSE) >>)
    /\ UNCHANGED <<cache0, args, http, now, nops, raw, formatted>>

\* clear_cache() (lines 260-263), called directly.
ClearEv(t) == [e |-> "clear", by |-> t, keys |-> Keys(cache)]

clear_cache(t) ==
    /\ pc[t] = "idle"
    /\ nops' = nops + 1
    /\ cache' = cache_clear(cache)
    /\ http' = [http EXCEPT ![t] = NoRequest]
    /\ ret' = [ret EXCEPT ![t] = Returned(PyNone)]
    /\ log' = log \o << ClearEv(t) >>
    /\ UNCHANGED <<cache0, pc, args, resp, now, raw, formatted>>

(***************************************************************************)
(* app.py: the handlers                                                    *)
(***************************************************************************)

sDefaultPreferences == <<"s", "i", "g", "h", "t", "s", "e", "e", "i", "n", "g", ",", " ", "f", "o", "o", "d", ",", " ", "p", "u", "b", "l", "i", "c", " ", "t", "r", "a", "n", "s", "p", "o", "r", "t", "a", "t", "i", "o", "n">>

\* supported_languages (line 125)
supported_languages ==
    { sEn, <<"e", "s">>, <<"f", "r">>, <<"d", "e">>, <<"i", "t">>, <<"j", "a">>, <<"z", "h">> }

\* data.get(key) and data.get(key, default): a JSON null is None, default or not.
Get(v, default) == IF v = Missing THEN default ELSE v

\* Python's truth value.
Truthy(v) ==
    CASE v.ty = "NoneType" -> FALSE
      [] v.ty = "missing" -> FALSE
      [] v.ty = "str" -> v.s # <<>>
      [] v.ty = "int" -> v.i # 0
      [] v.ty = "float" -> v.tenths # 0
      [] v.ty = "list" -> v.n > 0

DigitValue(c) ==
    CASE c = "0" -> 0 [] c = "1" -> 1 [] c = "2" -> 2 [] c = "3" -> 3 [] c = "4" -> 4
      [] c = "5" -> 5 [] c = "6" -> 6 [] c = "7" -> 7 [] c = "8" -> 8 [] c = "9" -> 9

RECURSIVE DigitsValue(_)
DigitsValue(s) ==
    IF s = <<>> THEN 0
    ELSE 10 * DigitsValue(SubSeq(s, 1, Len(s) - 1)) + DigitValue(s[Len(s)])

AllDigits(s) == s # <<>> /\ \A i \in 1..Len(s) : IsDigit(s[i])

\* int(days) (line 108): [ok, i], or the exception it raises.
int(v) ==
    CASE v.ty = "int" -> [ok |-> TRUE, i |-> v.i]
      [] v.ty = "float" ->
            [ok |-> TRUE,
             i |-> IF v.tenths >= 0 THEN v.tenths \div 10 ELSE -((-v.tenths) \div 10)]
      [] v.ty = "str" ->
            LET s == strip(v.s)
                signed == s # <<>> /\ Head(s) \in {"-", "+"}
                digits == IF signed THEN Tail(s) ELSE s
            IN  IF AllDigits(digits)
                THEN [ok |-> TRUE,
                      i |-> IF signed /\ Head(s) = "-" THEN -DigitsValue(digits)
                            ELSE DigitsValue(digits)]
                ELSE [ok |-> FALSE, exc |-> "ValueError"]
      [] OTHER -> [ok |-> FALSE, exc |-> "TypeError"]

\* len(v): [ok, n], or TypeError.
len(v) ==
    CASE v.ty = "str" -> [ok |-> TRUE, n |-> Len(v.s)]
      [] v.ty = "list" -> [ok |-> TRUE, n |-> v.n]
      [] OTHER -> [ok |-> FALSE, exc |-> "TypeError"]

\* The checks of itinerary() (lines 94-127) in their order: the response the
\* handler returns before it calls generate_itinerary, or [status |-> 0] with
\* the arguments of the call it makes.
Proceed(a) == [status |-> 0, call |-> a]

itinerary_checks(data) ==
    LET destination == Get(data.destination, PyNone)
        days == Get(data.days, PyNone)
        preferences == Get(data.preferences, PyStr(sDefaultPreferences))
        language == Get(data.language, PyStr(sEn))
        unexpected == Response(500, <<"An unexpected error occurred">>)
    IN  IF \A f \in DOMAIN data : data[f] = Missing
        THEN Response(400, <<"No JSON data provided">>)
        ELSE IF ~Truthy(destination) \/ ~Truthy(days)
        THEN Response(400, <<"Missing required fields: destination and days">>)
        ELSE IF ~int(days).ok
        THEN IF int(days).exc = "ValueError"
             THEN Response(400, <<"Days must be a valid integer">>)
             ELSE unexpected
        ELSE IF destination.ty # "str" \/ Len(strip(destination.s)) = 0
        THEN Response(400, <<"Destination must be a non-empty string">>)
        ELSE IF int(days).i < 1 \/ int(days).i > 30
        THEN Response(400, <<"Days must be between 1 and 30">>)
        ELSE IF Len(destination.s) > 100
        THEN Response(400, <<"Destination name is too long (max 100 characters)">>)
        ELSE IF ~len(preferences).ok
        THEN unexpected
        ELSE IF len(preferences).n > 500
        THEN Response(400, <<"Preferences text is too long (max 500 characters)">>)
        ELSE IF ~Hashable(language)
        THEN unexpected
        ELSE IF ~(language.ty = "str" /\ language.s \in supported_languages)
        THEN Response(400, <<"Unsupported language. Supported languages: ...">>)
        ELSE Proceed(Call(destination, PyInt(int(days).i), preferences, language))

\* POST /generate-itinerary (lines 90-137)
itinerary(t, data) ==
    /\ pc[t] = "idle"
    /\ nops' = nops + 1
    /\ LET r == itinerary_checks(data)
       IN  IF r.status # 0
           THEN /\ resp' = [resp EXCEPT ![t] = r]
                /\ http' = [http EXCEPT ![t] = data]
                /\ log' = log \o << [e |-> "request", by |-> t, data |-> data],
                                    [e |-> "response", by |-> t, resp |-> r] >>
                /\ UNCHANGED <<cache, pc, args, ret, now>>
           ELSE Invoke(t, r.call, data)
    /\ UNCHANGED <<cache0, raw, formatted>>

\* POST /clear-cache (lines 139-148)
clear_itinerary_cache(t) ==
    /\ pc[t] = "idle"
    /\ nops' = nops + 1
    /\ cache' = cache_clear(cache)
    /\ http' = [http EXCEPT ![t] = [clear |-> TRUE]]
    /\ ret' = [ret EXCEPT ![t] = Returned(PyNone)]
    /\ resp' = [resp EXCEPT ![t] = Response(200, <<"Cache cleared successfully">>)]
    /\ log' = log \o << ClearEv(t) >>
    /\ UNCHANGED <<cache0, pc, args, now, raw, formatted>>

(***************************************************************************)
(* The formatter alone                                                     *)
(***************************************************************************)

Format ==
    /\ formatted = NotFormatted
    /\ formatted' = [done |-> TRUE, text |-> format_itinerary_response(raw)]
    /\ UNCHANGED <<cache, cache0, pc, args, ret, http, resp, log, now, nops, raw>>

(***************************************************************************)
(* Inputs and bounds                                                       *)
(***************************************************************************)

\* The direct calls made in the main specification.
K1 == Call(PyStr(sParis), PyInt(3), PyStr(sFood), PyStr(sEn))
K2 == Call(PyStr(sRome), PyInt(3), PyStr(sFood), PyStr(sEn))
K1Float == [K1 EXCEPT !.days = PyFloat(30)]
ArgSet ==
    { K1, K2,
      K1Float,                                          \* days 3.0
      [K1 EXCEPT !.destination = PyStr(<<" ", " ">>)] } \* blank destination

\* The calls of the eviction specification: two new keys and the oldest entry
\* of the filled cache.
LruArgs == { K1, K2, FillArgs(1) }

\* The request bodies of the handler specification.
Body(dest, days, prefs, lang) ==
    [destination |-> dest, days |-> days, preferences |-> prefs, language |-> lang]
J1 == Body(PyStr(sParis), PyInt(3), PyStr(sFood), PyStr(sEn))
JsonInputs ==
    { Body(Missing, Missing, Missing, Missing),
      J1,
      Body(PyStr(sParis), PyInt(3), Missing, Missing),
      [J1 EXCEPT !.destination = Missing],
      [J1 EXCEPT !.destination = PyStr(<<>>)],
      [J1 EXCEPT !.destination = PyStr(<<" ", " ">>)],
      [J1 EXCEPT !.destination = PyInt(5)],
      [J1 EXCEPT !.destination = PyStr(Rep("a", 100))],
      [J1 EXCEPT !.destination = PyStr(Rep("a", 101))],
      [J1 EXCEPT !.days = PyInt(0)],
      [J1 EXCEPT !.days = PyInt(1)],
      [J1 EXCEPT !.days = PyInt(30)],
      [J1 EXCEPT !.days = PyInt(31)],
      [J1 EXCEPT !.days = PyInt(-1)],
      [J1 EXCEPT !.days = PyStr(<<"a", "b", "c">>)],
      [J1 EXCEPT !.days = PyStr(<<"3">>)],
      [J1 EXCEPT !.days = PyFloat(37)],
      [J1 EXCEPT !.days = PyList(1)],
      [J1 EXCEPT !.preferences = PyStr(Rep("p", 500))],
      [J1 EXCEPT !.preferences = PyStr(Rep("p", 501))],
      [J1 EXCEPT !.preferences = PyNone],
      [J1 EXCEPT !.preferences = PyList(1)],
      [J1 EXCEPT !.language = PyStr(<<"j", "a">>)],
      [J1 EXCEPT !.language = PyStr(<<"x", "x">>)],
      [J1 EXCEPT !.language = PyList(1)] }

\* The formatter's inputs: up to MaxPieces of these pieces, one after another.
Pieces ==
    { sOverview, sSafety, <<"D", "a", "y", " ", "1", ":">>,
      <<"D", "a", "y", " ", "1", "2", ":">>, sDay, <<"\n">>, <<" ">>, <<"x">> }

RECURSIVE Texts(_)
Texts(n) ==
    IF n = 0 THEN { <<>> }
    ELSE Texts(n - 1) \cup { t \o p : t \in Texts(n - 1), p \in Pieces }

\* Calls and requests begun in one run of each specification.
MaxOps == 3
MaxLruOps == 2
MaxClearOps == 4
MaxHttpOps == 2
MaxPieces == 3

RawInputs == Texts(MaxPieces) \cup { tExample }

Answers ==
    \E t \in Threads :
        \/ \E text \in RawTexts : FullPromptAnswers(t, text)
        \/ FullPromptFails(t)
        \/ \E text \in RawTexts : ReducedPromptAnswers(t, text)
        \/ ReducedPromptFails(t)

\* Direct calls of the module's two functions from the handler threads.
Calls(inputs, bound) ==
    \/ \E a \in inputs : nops < bound /\ Idle # {} /\ generate_itinerary(Dispatch, a)
    \/ nops < bound /\ Idle # {} /\ clear_cache(Dispatch)

\* The main specification: an empty cache, direct calls.
Init == InitWith(<<>>, <<>>)
Next == Calls(ArgSet, MaxOps) \/ Answers
Spec == Init /\ [][Next]_vars

\* Eviction: the cache holds maxsize - 1 or maxsize entries to begin with.
InitLru == \E n \in {maxsize - 1, maxsize} : InitWith(Prefill(n), <<>>)
NextLru == Calls(LruArgs, MaxLruOps) \/ Answers
SpecLru == InitLru /\ [][NextLru]_vars

\* Clearing while calls are in flight: one key.
NextClear == Calls({K1}, MaxClearOps) \/ Answers
SpecClear == Init /\ [][NextClear]_vars

\* The HTTP handlers.
NextHttp ==
    \/ \E data \in JsonInputs : nops < MaxHttpOps /\ Idle # {} /\ itinerary(Dispatch, data)
    \/ nops < MaxHttpOps /\ Idle # {} /\ clear_itinerary_cache(Dispatch)
    \/ Answers
SpecHttp == Init /\ [][NextHttp]_vars

\* The formatter on every input text.
InitFormat == \E r \in RawInputs : InitWith(<<>>, r)
NextFormat == Format
SpecFormat == InitFormat /\ [][NextFormat]_vars

(***************************************************************************)
(* Reading the history                                                     *)
(***************************************************************************)

Events == 1..Len(log)

Min(S) == CHOOSE x \in S : \A y \in S : x <= y
Max(S) == CHOOSE x \in S : \A y \in S : x >= y

IsCall(i) == log[i].e = "call"

\* The done event of the call that begins at event i, 0 while it is in flight.
CallEnd(i) ==
    LET D == {d \in Events : d > i /\ log[d].e = "done" /\ log[d].by = log[i].by}
    IN  IF D = {} THEN 0 ELSE Min(D)

\* The external calls the call of event i has issued.
ModelCalls(i) ==
    LET last == IF CallEnd(i) = 0 THEN Len(log) ELSE CallEnd(i)
    IN  {m \in i..last : log[m].e = "model" /\ log[m].by = log[i].by}

\* The call of event i found its key in the cache.
IsHit(i) == i < Len(log) /\ log[i + 1].e = "hit"

Valid(a) ==
    /\ \A f \in DOMAIN a : Hashable(a[f])
    /\ validate_inputs(a.destination, a.days, a.preferences) = "ok"

ClearBetween(i, j) == \E c \in i..j : log[c].e = "clear"
EvictedBetween(k, i, j) == \E c \in i..j : log[c].e = "evict" /\ log[c].key = k

\* Two calls with identical valid arguments, the first ended before the second
\* began, and no clear_cache in between.
Repeated(i, j) ==
    /\ i < j /\ IsCall(i) /\ IsCall(j)
    /\ log[i].args = log[j].args
    /\ Valid(log[i].args)
    /\ CallEnd(i) # 0 /\ CallEnd(i) < j /\ CallEnd(j) # 0
    /\ ~ClearBetween(i, j)

(***************************************************************************)
(* C1                                                                      *)
(***************************************************************************)

\* C1 as stated: two calls with identical valid arguments and no clear_cache in
\* between issue the external call at most once in total, and the second call
\* is a cache hit.
C1_Original ==
    \A i, j \in Events :
        Repeated(i, j) =>
            /\ Cardinality(ModelCalls(i) \cup ModelCalls(j)) <= 1
            /\ IsHit(j)

\* C1 amended: when the first call returns a result and its key is not evicted
\* in between, the second call is a cache hit that returns the stored result
\* without any external call; the first call issued at most two external calls
\* (the full prompt, and the reduced prompt when the full prompt failed).
C1_SecondCallHits ==
    \A i, j \in Events :
        ( /\ Repeated(i, j)
          /\ log[CallEnd(i)].out.kind = "return"
          /\ ~EvictedBetween(make_key(log[i].args), i, j) )
        => /\ IsHit(j)
           /\ ModelCalls(j) = {}
           /\ Cardinality(ModelCalls(i)) <= 2
           /\ log[CallEnd(j)].out.kind = "return"
           /\ \E m \in 1..(j - 1) :
                 /\ log[m].e = "insert"
                 /\ log[m].key = make_key(log[j].args)
                 /\ log[m + 1].e = "done"
                 /\ log[m + 1].out = log[CallEnd(j)].out

\* The first call fell back to the reduced prompt (two external calls) and the
\* second call was served from the cache.
C1_Witness ==
    \E i, j \in Events :
        /\ Repeated(i, j)
        /\ log[CallEnd(i)].out.kind = "return"
        /\ Cardinality(ModelCalls(i)) = 2
        /\ IsHit(j)

(***************************************************************************)
(* C2                                                                      *)
(***************************************************************************)

\* C2 as stated: of two calls with the same key that overlap in time, only one
\* issues external calls, exactly one external call is observed, and the two
\* callers receive the same result.
C2_SingleFlight ==
    \A i, j \in Events :
        ( /\ i < j /\ IsCall(i) /\ IsCall(j)
          /\ Valid(log[i].args)
          /\ make_key(log[i].args) = make_key(log[j].args)
          /\ (CallEnd(i) = 0 \/ CallEnd(i) > j) )
        => /\ (ModelCalls(i) = {} \/ ModelCalls(j) = {})
           /\ (CallEnd(i) # 0 /\ CallEnd(j) # 0)
                 => log[CallEnd(i)].out = log[CallEnd(j)].out

(***************************************************************************)
(* C3                                                                      *)
(***************************************************************************)

\* C3 as stated: a call whose destination, days or preferences fails validation
\* makes no external call, is served no cached result, and ends in an error.
C3_ValidatedBeforeCache ==
    \A i \in Events :
        (IsCall(i) /\ ~Valid(log[i].args))
        => /\ ~IsHit(i)
           /\ ModelCalls(i) = {}
           /\ (CallEnd(i) # 0 => log[CallEnd(i)].out.kind = "raise")

(***************************************************************************)
(* C4                                                                      *)
(***************************************************************************)

\* When key k was used last (stored or hit): its event, or for an entry of the
\* initial cache never used since, its place there (below every event).
LastUse(k) ==
    LET S == {i \in Events : log[i].e \in {"hit", "insert"} /\ log[i].key = k}
    IN  IF S # {} THEN Max(S) ELSE CacheIndex(cache0, k) - Len(cache0) - 1

LruKey ==
    LET lu == [k \in Keys(cache) |-> LastUse(k)]
    IN  CHOOSE k \in Keys(cache) : \A k2 \in Keys(cache) : lu[k] <= lu[k2]

C4Step ==
    LET added == Keys(cache') \ Keys(cache)
        removed == Keys(cache) \ Keys(cache')
    IN  /\ Len(cache') <= maxsize
        /\ Cardinality(Keys(cache')) = Len(cache')
        /\ Cardinality(added) <= 1
        /\ (added # {} /\ Len(cache) = maxsize)
              => (removed = {LruKey} /\ Len(cache') = maxsize)
        /\ (added # {} /\ Len(cache) < maxsize)
              => (removed = {} /\ Len(cache') = Len(cache) + 1)
        /\ added = {} => (removed = {} \/ cache' = <<>>)

\* C4: the cache never holds more than maxsize (100) entries; a new key stored
\* in a full cache evicts exactly one entry, the least recently used one
\* (stores and hits both count as use); nothing else evicts.
C4_LruEviction == [][C4Step]_vars

\* 101 distinct keys were stored (99 to begin with, then two more): 100 entries
\* are left and the first-used key is gone.
C4_Witness ==
    /\ Len(cache0) = maxsize - 1
    /\ Len(cache) = maxsize
    /\ make_key(FillArgs(1)) \notin Keys(cache)
    /\ {make_key(K1), make_key(K2)} \subseteq Keys(cache)

(***************************************************************************)
(* C5                                                                      *)
(***************************************************************************)

\* C5 as stated: the first call made after a clear_cache with arguments that
\* were cached before the clear is a miss.
C5_MissAfterClear ==
    \A c, j \in Events :
        ( /\ log[c].e = "clear" /\ c < j /\ IsCall(j)
          /\ make_key(log[j].args) \in log[c].keys
          /\ \A m \in (c + 1)..(j - 1) :
                ~(IsCall(m) /\ make_key(log[m].args) = make_key(log[j].args)) )
        => ~IsHit(j)

(***************************************************************************)
(* C6                                                                      *)
(***************************************************************************)

\* The events of thread t, in order.
Proj(t) == SelectSeq(log, LAMBDA ev : ev.by = t)

C6Thread(P) ==
    \A n \in 1..Len(P) :
        /\ (P[n].e = "call" /\ Valid(P[n].args)
              /\ ~(n < Len(P) /\ P[n + 1].e = "hit"))
           => (n < Len(P) /\ P[n + 1].e = "model" /\ P[n + 1].prompt = "full")
        /\ (P[n].e = "model" /\ P[n].prompt = "full")
           => (n > 1 /\ P[n - 1].e = "call")
        /\ (P[n].e = "model" /\ P[n].prompt = "reduced")
           => ( /\ n > 2
                /\ P[n - 1].e = "resp" /\ P[n - 1].prompt = "full" /\ ~P[n - 1].ok
                /\ P[n - 2].e = "model" /\ P[n - 2].prompt = "full" )
        /\ (P[n].e = "resp" /\ P[n].prompt = "full" /\ ~P[n].ok)
           => (n < Len(P) /\ P[n + 1].e = "model" /\ P[n + 1].prompt = "reduced")
        /\ (P[n].e = "resp" /\ P[n].prompt = "reduced" /\ ~P[n].ok)
           => ( /\ n < Len(P)
                /\ P[n + 1].e = "done"
                /\ P[n + 1].out.kind = "raise"
                /\ P[n + 1].out.exc = "TravelAssistantError" )
        /\ (P[n].e = "resp" /\ P[n].ok)
           => (P[n - 1].e = "model" /\ P[n - 1].prompt = P[n].prompt)

\* C6: a miss with valid inputs sends the full prompt first; the reduced prompt
\* is sent if and only if the full prompt failed, once; when it fails too the
\* call raises TravelAssistantError; one call issues at most two external calls.
C6_RetryOnce ==
    /\ \A t \in Threads : C6Thread(Proj(t))
    /\ \A i \in Events : IsCall(i) => Cardinality(ModelCalls(i)) <= 2

\* A call whose two attempts both failed and that raised.
C6_Witness ==
    \E i \in Events :
        /\ IsCall(i) /\ CallEnd(i) # 0
        /\ Cardinality(ModelCalls(i)) = 2
        /\ log[CallEnd(i)].out.kind = "raise"

(***************************************************************************)
(* C8                                                                      *)
(***************************************************************************)

HasFallback(r) == "fallback" \in DOMAIN r.metadata /\ r.metadata.fallback = TRUE

\* The answer that produced result r (results carry the time they were made).
ProducedBy(r, prompt) ==
    \E i \in Events :
        /\ log[i].e = "resp" /\ log[i].ok
        /\ log[i].at = r.metadata.generated_at
        /\ log[i].prompt = prompt

\* The results generate_itinerary has returned, and the ones the cache holds.
ResultsSeen ==
    {log[i].out.result : i \in {d \in Events : log[d].e = "done" /\ log[d].out.kind = "return"}}
        \cup {cache[i].result : i \in 1..Len(cache)}

\* C8: a result, fresh or from the cache, carries fallback = True if and only
\* if the reduced-prompt retry produced it, and that retry's answer is returned
\* as a result, not raised.
C8_FallbackFlag ==
    /\ \A r \in ResultsSeen :
          /\ HasFallback(r) <=> ProducedBy(r, "reduced")
          /\ "fallback" \notin DOMAIN r.metadata <=> ProducedBy(r, "full")
    /\ \A i \in Events :
          (log[i].e = "resp" /\ log[i].ok /\ log[i].prompt = "reduced")
          => \E d \in Events :
                /\ d > i /\ log[d].e = "done" /\ log[d].by = log[i].by
                /\ log[d].out.kind = "return"
                /\ HasFallback(log[d].out.result)
                /\ log[d].out.result.metadata.generated_at = log[i].at

\* A result of the reduced prompt was served from the cache, flag and all.
C8_Witness ==
    \E i \in Events :
        /\ IsCall(i) /\ IsHit(i)
        /\ HasFallback(log[CallEnd(i)].out.result)

(***************************************************************************)
(* C10                                                                     *)
(***************************************************************************)

\* A step of a call other than a hit or the storing of its result: a miss that
\* goes on to the model or raises, a failed attempt, the raise that ends it.
C10Step ==
    LET new == SubSeq(log', Len(log) + 1, Len(log'))
    IN  (\E n \in 1..Len(new) :
            \/ new[n].e = "model"
            \/ (new[n].e = "resp" /\ ~new[n].ok)
            \/ (new[n].e = "done" /\ new[n].out.kind = "raise"))
        => cache' = cache

\* A call that raised touched no entry, and an identical call that follows it
\* (nothing stored for the key in between) is a miss again.
C10Inv ==
    \A i \in Events :
        (IsCall(i) /\ CallEnd(i) # 0 /\ log[CallEnd(i)].out.kind = "raise")
        => /\ \A m \in i..CallEnd(i) :
                 log[m].by = log[i].by => log[m].e \notin {"hit", "insert", "evict"}
           /\ \A j \in Events :
                 ( /\ j > CallEnd(i) /\ IsCall(j) /\ log[j].args = log[i].args
                   /\ \A m \in i..j :
                         ~(log[m].e = "insert" /\ log[m].key = make_key(log[i].args)) )
                 => ~IsHit(j)

\* C10: a call that ends in an error (validation, or both attempts failed)
\* leaves the cache as it was: it stores nothing and evicts nothing, and a
\* later identical call is a miss again.
C10_ErrorLeavesCache == []C10Inv /\ [][C10Step]_vars

\* Both attempts of a call failed, and the identical call after it missed too.
C10_Witness ==
    \E i, j \in Events :
        /\ IsCall(i) /\ CallEnd(i) # 0 /\ log[CallEnd(i)].out.kind = "raise"
        /\ Cardinality(ModelCalls(i)) = 2
        /\ j > CallEnd(i) /\ IsCall(j) /\ log[j].args = log[i].args
        /\ ~IsHit(j)
        /\ cache = <<>>

(***************************************************************************)
(* C7                                                                      *)
(***************************************************************************)

\* The request the claim lets through: a non-blank destination of at most 100
\* characters, days an integer in 1..30 (a number or the text of one),
\* preferences of at most 500 characters, a supported language.
WellFormed(data) ==
    LET destination == Get(data.destination, PyNone)
        days == Get(data.days, PyNone)
        preferences == Get(data.preferences, PyStr(sDefaultPreferences))
        language == Get(data.language, PyStr(sEn))
    IN  /\ destination.ty = "str"
        /\ strip(destination.s) # <<>>
        /\ Len(destination.s) <= 100
        /\ days.ty \in {"int", "str", "float"}
        /\ days.ty = "float" => days.tenths % 10 = 0
        /\ int(days).ok
        /\ int(days).i >= 1 /\ int(days).i <= 30
        /\ preferences.ty = "str"
        /\ Len(preferences.s) <= 500
        /\ language.ty = "str"
        /\ language.s \in supported_languages

\* C7 as stated: the handler calls generate_itinerary for the well-formed
\* requests only, and answers every other request with a 400-class error.
C7_RejectsWith400 ==
    \A i \in Events :
        log[i].e = "request"
        => LET reached == i < Len(log) /\ log[i + 1].e = "call"
           IN  IF WellFormed(log[i].data) THEN reached
               ELSE /\ ~reached
                    /\ log[i + 1].e = "response"
                    /\ log[i + 1].resp.status >= 400
                    /\ log[i + 1].resp.status <= 499

(***************************************************************************)
(* C9                                                                      *)
(***************************************************************************)

\* The sections the formatter detects: the pieces of the split, stripped, the
\* empty ones dropped.
RECURSIVE StripAll(_)
StripAll(parts) ==
    IF parts = <<>> THEN <<>>
    ELSE IF strip(Head(parts)) = <<>> THEN StripAll(Tail(parts))
    ELSE << strip(Head(parts)) >> \o StripAll(Tail(parts))

Sections(text) == StripAll(re_split(text, 1))

\* The lines of a text.
RECURSIVE Lines(_)
Lines(s) ==
    LET nl == {i \in 1..Len(s) : s[i] = "\n"}
    IN  IF nl = {} THEN << s >>
        ELSE << SubSeq(s, 1, Min(nl) - 1) >> \o Lines(SubSeq(s, Min(nl) + 1, Len(s)))

FirstLine(s) == Lines(s)[1]

\* The text without whitespace and without the characters of the markers.
Erase(s) == SelectSeq(s, LAMBDA c : ~IsSpace(c) /\ c \notin {"#", "-"})

sHeading == <<"#", "#", " ">>
sRule == <<"-", "-", "-">>

\* The separators of the output that stand right before a Day N heading.
RulesBeforeDays(out) ==
    {n \in 1..(Len(Lines(out)) - 1) :
        /\ Lines(out)[n] = sRule
        /\ StartsWithAt(Lines(out)[n + 1], 1, sHeading)
        /\ DayHeaderAt(Lines(out)[n + 1], 4)}

DayBlocks(secs, from) == {i \in from..Len(secs) : DayHeaderAt(secs[i], 1)}

\* The sections come out in order, and each that begins with a header is a heading.
C9Common ==
    /\ Erase(formatted.text) = Erase(raw)
    /\ \A i \in 1..Len(Sections(raw)) :
          HeaderAt(Sections(raw)[i], 1)
          => \E n \in 1..Len(Lines(formatted.text)) :
                Lines(formatted.text)[n] = sHeading \o FirstLine(Sections(raw)[i])

\* C9 as stated: sections in order, headers as headings, and a separator before
\* each Day N block, the first section included.
C9_Original ==
    formatted.done
    => /\ C9Common
       /\ Cardinality(RulesBeforeDays(formatted.text))
             >= Cardinality(DayBlocks(Sections(raw), 1))

\* C9 amended: a separator before each Day N block but one that is the first
\* section of the output, which begins with its heading.
C9_SeparatorBetweenSections ==
    formatted.done
    => /\ C9Common
       /\ Cardinality(RulesBeforeDays(formatted.text))
             >= Cardinality(DayBlocks(Sections(raw), 2))
       /\ (Sections(raw) # <<>> /\ DayHeaderAt(Sections(raw)[1], 1))
             => StartsWithAt(formatted.text, 1, sHeading \o sDay)

\* Two Day N blocks, the first of them the first section: one separator.
C9_Witness ==
    /\ formatted.done
    /\ Len(Sections(raw)) = 2
    /\ DayBlocks(Sections(raw), 1) = {1, 2}
    /\ Cardinality(RulesBeforeDays(formatted.text)) = 1
=============================================================================
